---------------------------- MODULE Spec2Model ----------------------------
(***************************************************************************)
(* Model of the array-addressed Merkle tree of jovijovi/merkletree        *)
(* (src/merkle.go, src/options.go): Leaves.BuildTree and the queries on   *)
(* the Level Table it returns (Height, Width, Y, X, GetRootHash, GetHash),*)
(* PoNs.GetPath and Tree.Prove, Marshal, the calls on Leaf Sets, and the  *)
(* pointer-linked variant over Contents (src/merkle_tree.go).             *)
(*                                                                         *)
(* Go values are represented as follows.                                   *)
(*   []byte            a sequence of naturals; nil and empty are <<>>      *)
(*   error             a string, "" for nil                                *)
(*   *Leaves           [nil, elems]                                        *)
(*   *Tree             [nil, levels]                                       *)
(*   *Node             NilNode, a Node record (a branch, whose storage no  *)
(*                     later call writes), or [ref |-> i], the address of  *)
(*                     element i (0-based) of the Leaf Set's array         *)
(*   uint64            a natural; subtraction wraps (USub)                 *)
(* Sequences are 1-based in TLA+, so Go's s[i] is s[i + 1] here.           *)
(* A []byte is a value of its own: digests and payloads are taken to have  *)
(* no spare capacity and to share no storage, so that append(a, b...)      *)
(* writes to neither operand.                                              *)
(***************************************************************************)
EXTENDS Integers, Sequences, FiniteSets, TLC

----------------------------------------------------------------------------
(* Bounds of the model *)

\* Largest number of leaves the caller puts in the Leaf Set.
MaxLeaves == 5

\* Largest number of BuildTree calls made on the Leaf Set in one behaviour.
MaxBuilds == 2

\* Longest message the Faulty hash provider accepts.
FaultyMaxLen == 8

\* The calls made on Leaf Sets under SpecLeaves, and the leaves of the Leaf
\* Set they start from.
MaxCalls == 3

MaxCloned == 3

\* The leaves of the Leaf Set two builds run on at once under SpecRace.
MaxRaced == 3

\* The leaves of the Leaf Set built before tables from JSON text are queried,
\* under SpecText.
MaxQueried == 2

----------------------------------------------------------------------------
(* Values *)

\* uint64 has no counterpart in TLC's 32-bit integers: MaxUint64 stands for
\* 2^64 - 1, the value 0 - 1 wraps to.
MaxUint64 == 2147483647

USub(a, b) == IF a >= b THEN a - b ELSE MaxUint64 - (b - a) + 1

NoErr == ""

NilNode == [nil |-> TRUE]

NilTree == [nil |-> TRUE, levels |-> <<>>]

NilLeaves == [nil |-> TRUE, elems |-> <<>>]

TreePtr(levels) == [nil |-> FALSE, levels |-> levels]

LeavesPtr(elems) == [nil |-> FALSE, elems |-> elems]

\* A Leaf as the caller writes it: Leaf{Height: ht, Hash: digest, Payload: payload}.
MkLeaf(ht, digest, payload) ==
    [Height |-> ht, Hash |-> digest, Left |-> NilNode, Right |-> NilNode,
     Payload |-> payload]

\* The zero value of a Node (var root2 Root).
ZeroNode == MkLeaf(0, <<>>, <<>>)

\* The leaves a caller puts in a Leaf Set: a raw payload without digest, and a
\* leaf carrying a digest it computed elsewhere and a Height of its own.
LeafChoices == {MkLeaf(0, <<>>, <<1>>), MkLeaf(1, <<3>>, <<2>>)}

----------------------------------------------------------------------------
(* Hash functions (IHashFunc) *)

\* The providers a caller can configure: the default, and two custom ones.
HashFuncs == {"Keccak256", "Checksum", "Faulty"}

RECURSIVE SumBytes(_)
SumBytes(msg) == IF msg = <<>> THEN 0 ELSE Head(msg) + SumBytes(Tail(msg))

\* IHashFunc.Hash: [digest, err].  Keccak256 is the default provider, taken as
\* collision-free: an injective function of the message.  Checksum is a custom
\* provider with a one-byte digest, hence with collisions.  Faulty is a custom
\* provider, injective too, whose Write fails on a message longer than
\* FaultyMaxLen and on a message starting with byte 2.
Hash(h, msg) ==
    IF h = "Keccak256" THEN [digest |-> <<101>> \o msg, err |-> NoErr]
    ELSE IF h = "Checksum" THEN [digest |-> <<SumBytes(msg) % 4>>, err |-> NoErr]
    ELSE IF Len(msg) > FaultyMaxLen \/ (msg # <<>> /\ Head(msg) = 2)
         THEN [digest |-> <<>>, err |-> "write failed"]
         ELSE [digest |-> <<102>> \o msg, err |-> NoErr]

\* NewOptions with WithHashFunc / WithSkipHash applied.
NewOptions(hashFunc, skipHash) == [HashFunc |-> hashFunc, SkipHash |-> skipHash]

DefaultHashFunc == "Keccak256"

----------------------------------------------------------------------------
(* Leaves *)

Length(obj) == IF obj.nil THEN 0 ELSE Len(obj.elems)

IsEmpty(obj) == Length(obj) = 0

\* LastLeaf: &(*obj)[obj.Length()-1], read as a value.
LastLeaf(elems) == elems[Len(elems)]

\* Leaf.Clone: a copy of all five fields.
LeafClone(node) ==
    [Height |-> node.Height, Hash |-> node.Hash, Left |-> node.Left,
     Right |-> node.Right, Payload |-> node.Payload]

\* Leaves.Hash: digests are written leaf by leaf, and the first error stops
\* the loop, leaving the leaves before it rewritten.  [elems, err]
RECURSIVE HashFrom(_, _, _)
HashFrom(elems, h, i) ==
    IF i >= Len(elems) THEN [elems |-> elems, err |-> NoErr]
    ELSE LET d == Hash(h, elems[i + 1].Payload)
         IN  IF d.err # NoErr THEN [elems |-> elems, err |-> d.err]
             ELSE HashFrom([elems EXCEPT ![i + 1].Hash = d.digest], h, i + 1)

\* Leaves.Hash that keeps a digest the leaf already carries.
LeavesHashKeep(elems, h) ==
    LET r == HashFrom(elems, h, 0)
    IN  [r EXCEPT !.elems = [i \in 1..Len(elems) |->
                                IF elems[i].Hash = <<>> THEN r.elems[i]
                                ELSE elems[i]]]

LeavesHash(elems, h) == HashFrom(elems, h, 0)

\* PadLeaves without its test of the length: every build appends a clone.
PadLeavesAlways(elems) == Append(elems, LeafClone(LastLeaf(elems)))

\* PadLeaves with the test inverted: an odd Leaf Set is left as it is.
PadLeavesEven(elems) ==
    IF Len(elems) % 2 = 0 THEN Append(elems, LeafClone(LastLeaf(elems)))
    ELSE elems

\* PadLeaves with a clone that loses the payload.
PadLeavesNoPayload(elems) ==
    IF Len(elems) % 2 = 1
    THEN Append(elems, [LeafClone(LastLeaf(elems)) EXCEPT !.Payload = <<>>])
    ELSE elems

\* BuildTree's padding: an odd Leaf Set gets a clone of its last leaf appended.
PadLeaves(elems) ==
    IF Len(elems) % 2 = 1 THEN Append(elems, LeafClone(LastLeaf(elems)))
    ELSE elems

\* The body of the padding alone: clone := obj.LastLeaf().Clone() and
\* *obj = append(*obj, *clone).
AppendClone(elems) == Append(elems, LeafClone(LastLeaf(elems)))

\* initTree: a table of one level, the leaves' digests in leaf order.
\* [tree, err]
InitTree(elems) ==
    IF Len(elems) = 0 THEN [tree |-> NilTree, err |-> "not found"]
    ELSE [tree |-> TreePtr(<<[i \in 1..Len(elems) |-> elems[i].Hash]>>),
          err |-> NoErr]

----------------------------------------------------------------------------
(* buildBranch *)

\* The right operand of the pair starting at i: i itself for a trailing
\* unpaired node.
RightIndex(length, i) == IF length = i + 1 THEN i ELSE i + 1

\* Combine with the operands in the wrong order.
CombineSwapped(h, leftHash, rightHash) == Hash(h, rightHash \o leftHash)

\* The digest of a pair: h.Hash(append(left.Hash, right.Hash...)).
\* Combine that drops the error of the hash function.
CombineDropErr(h, leftHash, rightHash) ==
    [Hash(h, leftHash \o rightHash) EXCEPT !.err = NoErr]

Combine(h, leftHash, rightHash) == Hash(h, leftHash \o rightHash)

\* Branch with the two children exchanged.
BranchSwapped(leftNode, digest, leftPtr, rightPtr) ==
    [Height |-> leftNode.Height + 1, Hash |-> digest, Left |-> rightPtr,
     Right |-> leftPtr, Payload |-> <<>>]

\* The Node literal of a pair; leftPtr and rightPtr are &nodes[left] and
\* &nodes[right].
Branch(leftNode, digest, leftPtr, rightPtr) ==
    [Height |-> leftNode.Height + 1, Hash |-> digest, Left |-> leftPtr,
     Right |-> rightPtr, Payload |-> <<>>]

\* The loop of buildBranch from index i on.  nodes are the nodes of the level
\* and ptrs their addresses.  Returns [branches, hashSet, err, done, root]:
\* done says that the loop returned from inside (length = 2).
RECURSIVE BranchLoop(_, _, _, _, _, _)
BranchLoop(nodes, ptrs, h, i, branches, hashSet) ==
    LET length == Len(nodes)
        left   == i
        right  == RightIndex(length, i)
    IN  IF i >= length
        THEN [branches |-> branches, hashSet |-> hashSet, err |-> NoErr,
              done |-> FALSE, root |-> NilNode]
        ELSE LET d == Combine(h, nodes[left + 1].Hash, nodes[right + 1].Hash)
                 branch == Branch(nodes[left + 1], d.digest, ptrs[left + 1],
                                  ptrs[right + 1])
             IN  IF d.err # NoErr
                 THEN [branches |-> branches, hashSet |-> hashSet,
                       err |-> d.err, done |-> TRUE, root |-> NilNode]
                 ELSE IF length = 2
                 THEN [branches |-> Append(branches, branch),
                       hashSet |-> Append(hashSet, d.digest), err |-> NoErr,
                       done |-> TRUE, root |-> branch]
                 ELSE BranchLoop(nodes, ptrs, h, i + 2,
                                 Append(branches, branch),
                                 Append(hashSet, d.digest))

\* AppendLevel that pads an odd level of the table with a copy of its last
\* digest.
AppendLevelPhantom(levels, hashSet) ==
    Append(levels, IF Len(hashSet) % 2 = 1
                   THEN Append(hashSet, hashSet[Len(hashSet)]) ELSE hashSet)

\* What buildBranch appends to the table after a pass over one level.
AppendLevel(levels, hashSet) == Append(levels, hashSet)

\* AppendTop forgotten: the root's digest never enters the table.
AppendTopMissing(levels, hashSet) == levels

\* What buildBranch appends to the table before it returns the root.
AppendTop(levels, hashSet) == Append(levels, hashSet)

\* buildBranch: [levels, root, err, diverges].  A level of fewer than two
\* nodes never reaches the return inside the loop: the call recurses on a
\* level of the same width, without end.
RECURSIVE BuildBranch(_, _, _, _)
BuildBranch(nodes, ptrs, levels, h) ==
    IF Len(nodes) < 2
    THEN [levels |-> levels, root |-> NilNode, err |-> NoErr, diverges |-> TRUE]
    ELSE LET r == BranchLoop(nodes, ptrs, h, 0, <<>>, <<>>)
         IN  IF r.err # NoErr
             THEN [levels |-> levels, root |-> NilNode, err |-> r.err,
                   diverges |-> FALSE]
             ELSE IF r.done
             THEN [levels |-> AppendTop(levels, r.hashSet), root |-> r.root,
                   err |-> NoErr, diverges |-> FALSE]
             ELSE BuildBranch(r.branches, r.branches,
                              AppendLevel(levels, r.hashSet), h)

\* The widths of the levels buildBranch is entered with, the first call
\* first: length := len(nodes) of every call of the recursion.
RECURSIVE EnteredWidths(_, _, _)
EnteredWidths(nodes, ptrs, h) ==
    IF Len(nodes) < 2 THEN <<Len(nodes)>>
    ELSE LET r == BranchLoop(nodes, ptrs, h, 0, <<>>, <<>>)
         IN  IF r.err # NoErr \/ r.done THEN <<Len(nodes)>>
             ELSE <<Len(nodes)>> \o EnteredWidths(r.branches, r.branches, h)

\* The addresses &nodes[i] of the level-0 call: nodes is *obj, the Leaf Set's
\* own array.
LeafPtrs(elems) == [i \in 1..Len(elems) |-> [ref |-> i - 1]]

\* The Node graph behind a pointer, as reflect.DeepEqual and json.Marshal
\* walk it: an address into the Leaf Set's array reads the leaf stored there
\* now.
RECURSIVE NodeView(_, _)
NodeView(ptr, elems) ==
    IF ptr = NilNode THEN NilNode
    ELSE IF "ref" \in DOMAIN ptr THEN elems[ptr.ref + 1]
    ELSE [ptr EXCEPT !.Left = NodeView(ptr.Left, elems),
                     !.Right = NodeView(ptr.Right, elems)]

----------------------------------------------------------------------------
(* BuildTree *)

\* What BuildTree returns, and the Leaf Set it leaves behind.
BuildResult(obj, tree, root, err, diverges) ==
    [obj |-> obj, tree |-> tree, root |-> root, err |-> err,
     diverges |-> diverges]

\* The guard of BuildTree: obj == nil || obj.IsEmpty().
EmptyInput(obj) == obj.nil \/ IsEmpty(obj)

\* EmptyResult that returns an empty table in place of nil.
EmptyResultTable(obj) ==
    BuildResult(obj, TreePtr(<<>>), NilNode, "not found leaf", FALSE)

\* What the guard returns: nil, nil and an error.
EmptyResult(obj) == BuildResult(obj, NilTree, NilNode, "not found leaf", FALSE)

\* Leaves.BuildTree(opt...).
BuildTree(obj, opts) ==
    IF EmptyInput(obj) THEN EmptyResult(obj)
    ELSE
        LET h      == opts.HashFunc
            hashed == IF ~opts.SkipHash THEN LeavesHash(obj.elems, h)
                      ELSE [elems |-> obj.elems, err |-> NoErr]
        IN  IF hashed.err # NoErr
            THEN BuildResult(LeavesPtr(hashed.elems), NilTree, NilNode,
                             hashed.err, FALSE)
            ELSE
            LET padded == PadLeaves(hashed.elems)
                obj1   == LeavesPtr(padded)
                it     == InitTree(padded)
            IN  IF it.err # NoErr
                THEN BuildResult(obj1, NilTree, NilNode, it.err, FALSE)
                ELSE
                LET b == BuildBranch(padded, LeafPtrs(padded),
                                     it.tree.levels, h)
                IN  IF b.diverges
                    THEN BuildResult(obj1, NilTree, NilNode, NoErr, TRUE)
                    ELSE IF b.err # NoErr
                    THEN BuildResult(obj1, NilTree, NilNode, b.err, FALSE)
                    ELSE BuildResult(obj1, TreePtr(b.levels), b.root, NoErr,
                                     FALSE)

----------------------------------------------------------------------------
(* Tree addressing *)

Height(tree) == IF tree.nil THEN 0 ELSE Len(tree.levels)

\* Width: [val, panic].  (*tree)[y] with y out of range is a run-time panic.
Width(tree, y) ==
    IF tree.nil \/ Height(tree) = 0 THEN [val |-> 0, panic |-> FALSE]
    ELSE IF y < Height(tree)
         THEN [val |-> Len(tree.levels[y + 1]), panic |-> FALSE]
         ELSE [val |-> 0, panic |-> TRUE]

\* Y without the test for an empty table.
YNoGuard(tree) == USub(Height(tree), 1)

Y(tree) == IF tree.nil \/ Height(tree) = 0 THEN 0 ELSE Height(tree) - 1

\* X: [val, panic]; Width(y) - 1 in uint64.
X(tree, y) ==
    IF tree.nil \/ Height(tree) = 0 THEN [val |-> 0, panic |-> FALSE]
    ELSE LET w == Width(tree, y)
         IN  IF w.panic THEN w ELSE [val |-> USub(w.val, 1), panic |-> FALSE]

\* What a query returns: [hash, err, panic].
Found(digest) == [hash |-> digest, err |-> NoErr, panic |-> FALSE]

Failed(msg) == [hash |-> <<>>, err |-> msg, panic |-> FALSE]

Panics == [hash |-> <<>>, err |-> NoErr, panic |-> TRUE]

GetRootHash(tree) ==
    IF tree.nil \/ Height(tree) = 0 THEN Failed("tree is empty")
    ELSE IF Len(tree.levels[Y(tree) + 1]) = 0 THEN Panics
         ELSE Found(tree.levels[Y(tree) + 1][1])

\* GetHash that answers an offset beyond the end of a level with the last
\* entry of the level.
GetHashClamp(tree, y, x) ==
    IF tree.nil \/ Height(tree) = 0 THEN Failed("tree is empty")
    ELSE IF y > Y(tree) THEN Failed("invalid y")
    ELSE IF X(tree, y).panic \/ Len(tree.levels[y + 1]) = 0 THEN Panics
    ELSE IF x >= Len(tree.levels[y + 1])
         THEN Found(tree.levels[y + 1][Len(tree.levels[y + 1])])
         ELSE Found(tree.levels[y + 1][x + 1])

\* GetHash with the offset checked before the level.
GetHashOffsetFirst(tree, y, x) ==
    IF tree.nil \/ Height(tree) = 0 THEN Failed("tree is empty")
    ELSE IF X(tree, y).panic THEN Panics
    ELSE IF x > X(tree, y).val THEN Failed("invalid x")
    ELSE IF y > Y(tree) THEN Failed("invalid y")
    ELSE IF x >= Len(tree.levels[y + 1]) THEN Panics
    ELSE Found(tree.levels[y + 1][x + 1])

\* GetHash: the level is checked before the offset; the last test is Go's own
\* bounds check of (*tree)[y][x].
GetHash(tree, y, x) ==
    IF tree.nil \/ Height(tree) = 0 THEN Failed("tree is empty")
    ELSE IF y > Y(tree) THEN Failed("invalid y")
    ELSE IF X(tree, y).panic THEN Panics
    ELSE IF x > X(tree, y).val THEN Failed("invalid x")
    ELSE IF x >= Len(tree.levels[y + 1]) THEN Panics
    ELSE Found(tree.levels[y + 1][x + 1])

----------------------------------------------------------------------------
(* Merkle path and proof *)

\* A PoN is <<y, x>>: Go's pon[0] is pon[1] here, and pon[1] is pon[2].
\* The sibling taken to the right of every offset.
SiblingOffsetRight(x) == x + 1

\* The offset GetPath gives the sibling of offset x.
SiblingOffset(x) == IF x % 2 = 0 THEN x + 1 ELSE USub(x, 1)

\* PoN.GetParent
GetParent(pon) == <<pon[1] + 1, pon[2] \div 2>>

\* GetPath returns only once y = height - 1: called with height = 0 or with
\* y above the top level it appends without end.
GetPathDiverges(height, y) == height = 0 \/ y > height - 1

\* PoNs.GetPath(height, y, x), for a call that returns: the receiver after it.
RECURSIVE GetPath(_, _, _, _)
GetPath(pons, height, y, x) ==
    LET pon == <<y, SiblingOffset(x)>>
    IN  IF y = USub(height, 1) THEN pons
        ELSE GetPath(Append(pons, pon), height, GetParent(pon)[1],
                     GetParent(pon)[2])

\* What Prove returns: [ok, err, panic].
ProveResult(ok, err) == [ok |-> ok, err |-> err, panic |-> FALSE]

ProvePanics == [ok |-> FALSE, err |-> NoErr, panic |-> TRUE]

\* ProveStep with the operands exchanged.
ProveStepSwapped(h, pon, brother, digest) ==
    IF pon[2] % 2 = 0 THEN Hash(h, digest \o brother)
    ELSE Hash(h, brother \o digest)

\* One step of Prove's loop: the sibling at an even offset is the left operand.
ProveStep(h, pon, brother, digest) ==
    IF pon[2] % 2 = 0 THEN Hash(h, brother \o digest)
    ELSE Hash(h, digest \o brother)

\* CompareRoot that compares the lengths only.
CompareRootLen(rootHash, digest) == Len(rootHash) = Len(digest)

\* Prove's last statement: bytes.Compare(rootHash, digest) == 0.
CompareRoot(rootHash, digest) == rootHash = digest

\* Prove's loop from the k-th position (1-based) of the path on, and the
\* comparison with the root that follows it.
RECURSIVE ProveFrom(_, _, _, _, _)
ProveFrom(tree, pons, k, digest, h) ==
    IF k > Len(pons)
    THEN LET rootHash == GetRootHash(tree)
         IN  IF rootHash.panic THEN ProvePanics
             ELSE IF rootHash.err # NoErr THEN ProveResult(FALSE, rootHash.err)
             ELSE ProveResult(CompareRoot(rootHash.hash, digest), NoErr)
    ELSE LET pon     == pons[k]
             brother == GetHash(tree, pon[1], pon[2])
             d       == ProveStep(h, pon, brother.hash, digest)
         IN  IF brother.panic THEN ProvePanics
             ELSE IF brother.err # NoErr THEN ProveResult(FALSE, brother.err)
             ELSE IF d.err # NoErr THEN ProveResult(FALSE, d.err)
             ELSE ProveFrom(tree, pons, k + 1, d.digest, h)

\* Tree.Prove(merklePath, unverifiedHash, h)
Prove(tree, pons, unverifiedHash, h) == ProveFrom(tree, pons, 1, unverifiedHash, h)

----------------------------------------------------------------------------
(* Marshal and Unmarshal (encoding/json) *)

\* JSON text is a sequence of tokens [t, v]: punctuation, null, a number, a
\* string (v holds its characters) or a member name such as "Hash:".  A
\* []byte is written as a string in base64 (characters 0..63, 64 for "="),
\* a nil []byte and a nil pointer as null.
Tok(t) == [t |-> t, v |-> <<>>]

StrTok(chars) == [t |-> "str", v |-> chars]

NumTok(n) == [t |-> "num", v |-> <<n>>]

\* base64.StdEncoding.EncodeToString
RECURSIVE B64Encode(_)
B64Encode(b) ==
    IF b = <<>> THEN <<>>
    ELSE IF Len(b) = 1
    THEN <<b[1] \div 4, (b[1] % 4) * 16, 64, 64>>
    ELSE IF Len(b) = 2
    THEN <<b[1] \div 4, (b[1] % 4) * 16 + b[2] \div 16, (b[2] % 16) * 4, 64>>
    ELSE <<b[1] \div 4, (b[1] % 4) * 16 + b[2] \div 16,
           (b[2] % 16) * 4 + b[3] \div 64, b[3] % 64>>
         \o B64Encode(SubSeq(b, 4, Len(b)))

\* base64.StdEncoding.DecodeString: [bytes, ok]
RECURSIVE B64Decode(_)
B64Decode(c) ==
    IF c = <<>> THEN [bytes |-> <<>>, ok |-> TRUE]
    ELSE IF Len(c) < 4 \/ c[1] = 64 \/ c[2] = 64
    THEN [bytes |-> <<>>, ok |-> FALSE]
    ELSE IF c[3] = 64
    THEN [bytes |-> <<c[1] * 4 + c[2] \div 16>>,
          ok |-> c[4] = 64 /\ Len(c) = 4]
    ELSE IF c[4] = 64
    THEN [bytes |-> <<c[1] * 4 + c[2] \div 16, (c[2] % 16) * 16 + c[3] \div 4>>,
          ok |-> Len(c) = 4]
    ELSE LET rest == B64Decode(SubSeq(c, 5, Len(c)))
         IN  [bytes |-> <<c[1] * 4 + c[2] \div 16,
                          (c[2] % 16) * 16 + c[3] \div 4,
                          (c[3] % 4) * 64 + c[4]>> \o rest.bytes,
              ok |-> rest.ok]

EncodeBytes(b) == IF b = <<>> THEN <<Tok("null")>> ELSE <<StrTok(B64Encode(b))>>

\* The elements of an array, separated by commas.
RECURSIVE Join(_)
Join(items) ==
    IF items = <<>> THEN <<>>
    ELSE IF Len(items) = 1 THEN items[1]
    ELSE items[1] \o <<Tok(",")>> \o Join(Tail(items))

\* A slice: null when nil, else its elements in brackets.
EncodeSlice(items) ==
    IF items = <<>> THEN <<Tok("null")>>
    ELSE <<Tok("[")>> \o Join(items) \o <<Tok("]")>>

EncodeLevel(level) ==
    EncodeSlice([x \in 1..Len(level) |-> EncodeBytes(level[x])])

EncodeTree(levels) ==
    EncodeSlice([y \in 1..Len(levels) |-> EncodeLevel(levels[y])])

\* A *Node: null when nil, else the members of the struct in their order.
RECURSIVE EncodeNode(_)
EncodeNode(node) ==
    IF node = NilNode THEN <<Tok("null")>>
    ELSE <<Tok("{"), Tok("Height:"), NumTok(node.Height), Tok(","),
           Tok("Hash:")>> \o EncodeBytes(node.Hash)
         \o <<Tok(","), Tok("Left:")>> \o EncodeNode(node.Left)
         \o <<Tok(","), Tok("Right:")>> \o EncodeNode(node.Right)
         \o <<Tok(","), Tok("Payload:")>> \o EncodeBytes(node.Payload)
         \o <<Tok("}")>>

\* Root.Marshal on the Node graph behind the receiver.
RootMarshalShallow(node) ==
    IF node = NilNode THEN EncodeNode(node)
    ELSE EncodeNode([node EXCEPT !.Left = NilNode, !.Right = NilNode])

\* Root.Marshal: json.Marshal(node), on the Node graph behind the receiver.
RootMarshal(node) == EncodeNode(node)

\* Tree.Marshal: [bytes, err]
TreeMarshal(tree) ==
    IF tree.nil THEN [bytes |-> <<>>, err |-> "tree is empty"]
    ELSE [bytes |-> EncodeTree(tree.levels), err |-> NoErr]

\* What a parser returns: [ok, val, pos], pos being the next token to read.
ParseFail == [ok |-> FALSE, val |-> <<>>, pos |-> 0]

Parsed(val, pos) == [ok |-> TRUE, val |-> val, pos |-> pos]

TokAt(toks, pos) == IF pos \in 1..Len(toks) THEN toks[pos] ELSE Tok("eof")

\* A []byte: null or a base64 string.
ParseBytes(toks, pos) ==
    LET tok == TokAt(toks, pos)
        d   == B64Decode(tok.v)
    IN  IF tok.t = "null" THEN Parsed(<<>>, pos + 1)
        ELSE IF tok.t = "str" /\ d.ok THEN Parsed(d.bytes, pos + 1)
        ELSE ParseFail

RECURSIVE ParseItems(_, _, _, _)
RECURSIVE ParseSlice(_, _, _)

\* A slice of levels (of = "level") or of digests (of = "bytes").
ParseSlice(toks, pos, of) ==
    IF TokAt(toks, pos).t = "null" THEN Parsed(<<>>, pos + 1)
    ELSE IF TokAt(toks, pos).t # "[" THEN ParseFail
    ELSE IF TokAt(toks, pos + 1).t = "]" THEN Parsed(<<>>, pos + 2)
    ELSE ParseItems(toks, pos + 1, <<>>, of)

\* The elements of a slice after its "[" or a comma.
ParseItems(toks, pos, acc, of) ==
    LET item == IF of = "bytes" THEN ParseBytes(toks, pos)
                ELSE ParseSlice(toks, pos, "bytes")
    IN  IF ~item.ok THEN ParseFail
        ELSE IF TokAt(toks, item.pos).t = ","
        THEN ParseItems(toks, item.pos + 1, Append(acc, item.val), of)
        ELSE IF TokAt(toks, item.pos).t = "]"
        THEN Parsed(Append(acc, item.val), item.pos + 1)
        ELSE ParseFail

RECURSIVE ParseNode(_, _, _)
RECURSIVE ParseMembers(_, _, _)

\* A *Node that now holds into: null makes it nil, an object fills the Node it
\* points to, or a new Node when it is nil.
ParseNode(toks, pos, into) ==
    IF TokAt(toks, pos).t = "null" THEN Parsed(NilNode, pos + 1)
    ELSE IF TokAt(toks, pos).t # "{" THEN ParseFail
    ELSE ParseMembers(toks, pos + 1, IF into = NilNode THEN ZeroNode ELSE into)

\* The members of an object after its "{" or a comma, stored into node.
ParseMembers(toks, pos, node) ==
    LET name == TokAt(toks, pos).t
        val  == TokAt(toks, pos + 1)
        m    == IF name = "Height:"
                THEN IF val.t = "num"
                     THEN Parsed([node EXCEPT !.Height = val.v[1]], pos + 2)
                     ELSE ParseFail
                ELSE IF name \in {"Hash:", "Payload:"}
                THEN LET b == ParseBytes(toks, pos + 1)
                     IN  IF ~b.ok THEN ParseFail
                         ELSE IF name = "Hash:"
                         THEN Parsed([node EXCEPT !.Hash = b.val], b.pos)
                         ELSE Parsed([node EXCEPT !.Payload = b.val], b.pos)
                ELSE IF name \in {"Left:", "Right:"}
                THEN LET n == ParseNode(toks, pos + 1,
                                        IF name = "Left:" THEN node.Left
                                        ELSE node.Right)
                     IN  IF ~n.ok THEN ParseFail
                         ELSE IF name = "Left:"
                         THEN Parsed([node EXCEPT !.Left = n.val], n.pos)
                         ELSE Parsed([node EXCEPT !.Right = n.val], n.pos)
                ELSE ParseFail
    IN  IF ~m.ok THEN ParseFail
        ELSE IF TokAt(toks, m.pos).t = "," THEN ParseMembers(toks, m.pos + 1, m.val)
        ELSE IF TokAt(toks, m.pos).t = "}" THEN Parsed(m.val, m.pos + 1)
        ELSE ParseFail

\* json.Unmarshal(data, &tree2): [tree, err].  Text that is no Level Table
\* leaves tree2 as it was.
UnmarshalTree(data, into) ==
    LET p == ParseSlice(data, 1, "level")
    IN  IF p.ok /\ p.pos = Len(data) + 1
        THEN [tree |-> TreePtr(p.val), err |-> NoErr]
        ELSE [tree |-> into, err |-> "invalid JSON"]

\* json.Unmarshal(data, &root2): [node, err].  null leaves root2 as it was.
UnmarshalRoot(data, into) ==
    LET p == ParseNode(data, 1, into)
    IN  IF p.ok /\ p.pos = Len(data) + 1
        THEN [node |-> IF p.val = NilNode THEN into ELSE p.val, err |-> NoErr]
        ELSE [node |-> into, err |-> "invalid JSON"]

----------------------------------------------------------------------------
(* Leaf Sets in memory: Add, Hash, Sort, Clone *)

\* A Leaves value is a slice header [arr, len] kept in hdrs, over a backing
\* array kept in arrays, whose length is the capacity of the slice; arr = 0
\* is a slice without array.  A *Leaves is the index of a header, 0 for nil.
\* mem is [arrays, hdrs].
View(mem, p) ==
    IF p = 0 THEN NilLeaves
    ELSE LET hd == mem.hdrs[p]
         IN  LeavesPtr(IF hd.arr = 0 THEN <<>>
                       ELSE SubSeq(mem.arrays[hd.arr], 1, hd.len))

Cap(mem, p) ==
    IF mem.hdrs[p].arr = 0 THEN 0 ELSE Len(mem.arrays[mem.hdrs[p].arr])

\* *obj = append(*obj, leaf): in place when there is spare capacity, else in
\* a new array of twice the capacity, which the header is pointed to.
GoAppend(mem, p, leaf) ==
    LET hd   == mem.hdrs[p]
        cap  == Cap(mem, p)
        old  == View(mem, p).elems
        ncap == IF cap = 0 THEN 1 ELSE 2 * cap
    IN  IF hd.len < cap
        THEN [arrays |-> [mem.arrays EXCEPT ![hd.arr][hd.len + 1] = leaf],
              hdrs   |-> [mem.hdrs EXCEPT ![p].len = hd.len + 1]]
        ELSE [arrays |-> Append(mem.arrays,
                                old \o <<leaf>> \o
                                    [i \in 1..(ncap - hd.len - 1) |-> ZeroNode]),
              hdrs   |-> [mem.hdrs EXCEPT
                             ![p] = [arr |-> Len(mem.arrays) + 1,
                                     len |-> hd.len + 1]]]

\* (*obj)[i] = elems[i] for every i < len(*obj)
WriteCells(mem, p, elems) ==
    LET hd == mem.hdrs[p]
    IN  IF hd.arr = 0 THEN mem
        ELSE [mem EXCEPT !.arrays[hd.arr] =
                 SubSeq(elems, 1, hd.len) \o
                     SubSeq(mem.arrays[hd.arr], hd.len + 1,
                            Len(mem.arrays[hd.arr]))]

\* Leaves.Add(leaf)
LeavesAdd(mem, p, leaf) ==
    IF p = 0 \/ leaf = NilNode THEN mem ELSE GoAppend(mem, p, leaf)

\* Leaves.Hash(h) on the Leaf Set in memory: [mem, err]
HashInPlace(mem, p, h) ==
    IF p = 0 THEN [mem |-> mem, err |-> NoErr]
    ELSE LET r == LeavesHash(View(mem, p).elems, h)
         IN  [mem |-> WriteCells(mem, p, r.elems), err |-> r.err]

\* bytes.Compare: -1, 0 or 1
RECURSIVE BytesCompare(_, _)
BytesCompare(a, b) ==
    IF a = <<>> THEN (IF b = <<>> THEN 0 ELSE 0 - 1)
    ELSE IF b = <<>> THEN 1
    ELSE IF Head(a) < Head(b) THEN 0 - 1
    ELSE IF Head(a) > Head(b) THEN 1
    ELSE BytesCompare(Tail(a), Tail(b))

\* Less with the comparison turned around.
LessGreater(elems, i, j) ==
    BytesCompare(elems[i + 1].Hash, elems[j + 1].Hash) = 1

\* Leaves.Less(i, j)
Less(elems, i, j) ==
    BytesCompare(elems[i + 1].Hash, elems[j + 1].Hash) = 0 - 1

\* Leaves.Swap(i, j)
Swap(elems, i, j) ==
    [elems EXCEPT ![i + 1] = elems[j + 1], ![j + 1] = elems[i + 1]]

\* sort.Sort on fewer than 12 elements is an insertion sort:
\* for i := 1; i < n; i++ { for j := i; j > 0 && Less(j, j-1); j-- { Swap(j, j-1) } }
RECURSIVE SortInner(_, _)
SortInner(elems, j) ==
    IF j > 0 /\ Less(elems, j, j - 1)
    THEN SortInner(Swap(elems, j, j - 1), j - 1)
    ELSE elems

RECURSIVE SortOuter(_, _)
SortOuter(elems, i) ==
    IF i >= Len(elems) THEN elems
    ELSE SortOuter(SortInner(elems, i), i + 1)

\* Leaves.Sort on the Leaf Set in memory
SortInPlace(mem, p) ==
    IF p = 0 THEN mem
    ELSE WriteCells(mem, p, SortOuter(View(mem, p).elems, 1))

\* Leaves.BuildTree on the Leaf Set in memory: [mem, res].  The digests are
\* written into the array and the clone of the last leaf is appended.
BuildInPlace(mem, p, opts) ==
    LET before == View(mem, p)
        r      == BuildTree(before, opts)
        n      == Len(before.elems)
        hashed == IF p = 0 THEN mem
                  ELSE WriteCells(mem, p, SubSeq(r.obj.elems, 1, n))
    IN  [mem |-> IF Len(r.obj.elems) > n
                 THEN GoAppend(hashed, p, r.obj.elems[n + 1])
                 ELSE hashed,
         res |-> r]

\* The loop of Leaves.Clone from element i on: the clone of each leaf is
\* appended to the slice behind q.
RECURSIVE CloneFrom(_, _, _, _)
CloneFrom(mem, q, elems, i) ==
    IF i >= Len(elems) THEN mem
    ELSE CloneFrom(GoAppend(mem, q, LeafClone(elems[i + 1])), q, elems, i + 1)

\* Leaves.Clone that copies the slice header only: leaves := *obj.
LeavesCloneHeader(mem, p) ==
    IF p = 0 THEN [mem |-> mem, ptr |-> 0]
    ELSE [mem |-> [mem EXCEPT !.hdrs = Append(mem.hdrs, mem.hdrs[p])],
          ptr |-> Len(mem.hdrs) + 1]

\* Leaves.Clone: [mem, ptr].  leaves := make(Leaves, 0) is a new header, and
\* &leaves its address.
LeavesClone(mem, p) ==
    IF p = 0 THEN [mem |-> mem, ptr |-> 0]
    ELSE LET q     == Len(mem.hdrs) + 1
             fresh == [mem EXCEPT !.hdrs = Append(mem.hdrs,
                                                  [arr |-> 0, len |-> 0])]
         IN  [mem |-> CloneFrom(fresh, q, View(mem, p).elems, 0), ptr |-> q]

----------------------------------------------------------------------------
(* The pointer-linked variant over Contents (merkle_tree.go) *)

\* A Content of the caller's: an item x whose CalculateHash hashes x with the
\* hash function hc, as TestContent does.
ContentOf(x, hc) == [x |-> x, hc |-> hc]

NilContent == [nil |-> TRUE]

\* Content.CalculateHash: [digest, err]
CalculateHash(c) == Hash(c.hc, c.x)

\* The Nodes NewTree allocates are kept level by level, the leaves in level
\* 1: a *Node is the address <<level, index>> of a Node, index counting from
\* 0, or NilNode.
MtNode(left, right, leaf, dup, digest, c) ==
    [Parent |-> NilNode, Left |-> left, Right |-> right, leaf |-> leaf,
     dup |-> dup, Hash |-> digest, C |-> c]

\* What buildWithContent and buildIntermediate return:
\* [root, nodes, err, diverges], root being a *Node.
MtResult(root, nodes, err, diverges) ==
    [root |-> root, nodes |-> nodes, err |-> err, diverges |-> diverges]

\* The loop of buildWithContent over cs from index i on: [leaves, err]
RECURSIVE ContentLeaves(_, _, _)
ContentLeaves(cs, i, leaves) ==
    IF i >= Len(cs) THEN [leaves |-> leaves, err |-> NoErr]
    ELSE LET d == CalculateHash(cs[i + 1])
         IN  IF d.err # NoErr THEN [leaves |-> leaves, err |-> d.err]
             ELSE ContentLeaves(cs, i + 1,
                                Append(leaves,
                                       MtNode(NilNode, NilNode, TRUE, FALSE,
                                              d.digest, cs[i + 1])))

\* The padding of buildWithContent: an odd list of leaves gets a duplicate of
\* its last leaf, marked dup.
MtPad(leaves) ==
    IF Len(leaves) % 2 = 1
    THEN Append(leaves, MtNode(NilNode, NilNode, TRUE, TRUE,
                               leaves[Len(leaves)].Hash, leaves[Len(leaves)].C))
    ELSE leaves

\* The digest of a pair with the operands exchanged.
MtCombineSwapped(h, leftHash, rightHash) == Hash(h, rightHash \o leftHash)

\* The digest of a pair: h.Write(append(nl[left].Hash, nl[right].Hash...))
\* and h.Sum(nil).
MtCombine(h, leftHash, rightHash) == Hash(h, leftHash \o rightHash)

\* The loop of buildIntermediate over level lvl of nodes from index i on; up
\* are the Nodes made so far, which form level lvl + 1.
\* Returns [nodes, up, err, done].
RECURSIVE IntermediateLoop(_, _, _, _, _)
IntermediateLoop(nodes, lvl, h, i, up) ==
    LET nl    == nodes[lvl]
        left  == i
        right == IF i + 1 = Len(nl) THEN i ELSE i + 1
    IN  IF i >= Len(nl)
        THEN [nodes |-> nodes, up |-> up, err |-> NoErr, done |-> FALSE]
        ELSE LET d == MtCombine(h, nl[left + 1].Hash, nl[right + 1].Hash)
                 n == MtNode(<<lvl, left>>, <<lvl, right>>, FALSE, FALSE,
                             d.digest, NilContent)
                 parent == <<lvl + 1, Len(up)>>
                 linked == [nodes EXCEPT ![lvl] =
                               [k \in 1..Len(nl) |->
                                   IF k \in {left + 1, right + 1}
                                   THEN [nl[k] EXCEPT !.Parent = parent]
                                   ELSE nl[k]]]
             IN  IF d.err # NoErr
                 THEN [nodes |-> nodes, up |-> up, err |-> d.err, done |-> TRUE]
                 ELSE IF Len(nl) = 2
                 THEN [nodes |-> linked, up |-> Append(up, n), err |-> NoErr,
                       done |-> TRUE]
                 ELSE IntermediateLoop(linked, lvl, h, i + 2, Append(up, n))

\* buildIntermediate(nl, t), nl being level lvl of nodes.  A level of fewer
\* than two Nodes never reaches the return inside the loop.
RECURSIVE BuildIntermediate(_, _, _)
BuildIntermediate(nodes, lvl, h) ==
    IF Len(nodes[lvl]) < 2 THEN MtResult(NilNode, nodes, NoErr, TRUE)
    ELSE LET r == IntermediateLoop(nodes, lvl, h, 0, <<>>)
         IN  IF r.err # NoErr THEN MtResult(NilNode, nodes, r.err, FALSE)
             ELSE IF r.done
             THEN MtResult(<<lvl + 1, 0>>, Append(r.nodes, r.up), NoErr, FALSE)
             ELSE BuildIntermediate(Append(r.nodes, r.up), lvl + 1, h)

\* buildWithContent(cs, t)
BuildWithContent(cs, h) ==
    IF Len(cs) = 0
    THEN MtResult(NilNode, <<>>,
                  "error: cannot construct tree with no content", FALSE)
    ELSE LET l == ContentLeaves(cs, 0, <<>>)
         IN  IF l.err # NoErr THEN MtResult(NilNode, <<>>, l.err, FALSE)
             ELSE BuildIntermediate(<<MtPad(l.leaves)>>, 1, h)

NilMerkleTree == [nil |-> TRUE]

\* NewTree(cs, WithHashFunc(h)): [tree, err, diverges].  The MerkleTree holds
\* the Nodes, the address of its Root, the root digest, the addresses of the
\* leaves and the hash function.
NewTree(cs, h) ==
    LET b == BuildWithContent(cs, h)
    IN  IF b.diverges \/ b.err # NoErr
        THEN [tree |-> NilMerkleTree, err |-> b.err, diverges |-> b.diverges]
        ELSE [tree |-> [nil |-> FALSE, nodes |-> b.nodes, Root |-> b.root,
                        merkleRoot |-> b.nodes[b.root[1]][b.root[2] + 1].Hash,
                        Leaves |-> [k \in 1..Len(b.nodes[1]) |-> <<1, k - 1>>],
                        hashFunc |-> h],
              err |-> NoErr, diverges |-> FALSE]

\* MerkleTree.MerkleRoot
MerkleRoot(m) == m.merkleRoot

----------------------------------------------------------------------------
(* The program's state *)

VARIABLES
    obj,       \* the caller's Leaf Set (*Leaves)
    builds,    \* the number of BuildTree calls made on it
    hung,      \* TRUE once a call did not return
    opts,      \* the options of the latest BuildTree call
    tree,      \* what the latest BuildTree call returned: the Level Table,
    root,      \*   the Root
    err,       \*   and the error
    opts0,     \* the same four of the BuildTree call before it, which the
    tree0,     \*   caller still holds
    root0,
    err0,
    pons,      \* the caller's merkle path (PoNs)
    ponsArgs,  \* the arguments of the GetPath call that filled it
    call,      \* the latest call: its arguments and, for a query, its result
    tree2,     \* a Level Table the caller declared (var tree2 Tree)
    root2,     \* a Root the caller declared (var root2 Root)
    arrays,    \* the backing arrays of the Leaf Sets, followed under SpecLeaves
    hdrs,      \*   and their slice headers
    leaves,    \* the caller's pointer to its Leaf Set,
    clone,     \*   and the pointer Clone returned
    calls,     \* the number of calls made on Leaf Sets under SpecLeaves
    race       \* two BuildTree calls running on the Leaf Set at once, under
               \*   SpecRace: [init, first, overlap, proc]

vars == <<obj, builds, hung, opts, tree, root, err, opts0, tree0, root0, err0,
          pons, ponsArgs, call, tree2, root2, arrays, hdrs, leaves, clone, calls,
          race>>

\* What the caller declared.
declVars == <<tree2, root2>>

\* Where the Leaf Sets are stored.
memVars == <<arrays, hdrs, leaves, clone, calls>>

\* The two callers of SpecRace.
Procs == {1, 2}

\* A caller that has not entered BuildTree yet: where it is, its options,
\* what its test of the length found, its table, and what it returned.
IdleProc ==
    [pc |-> "call", opts |-> NewOptions(DefaultHashFunc, FALSE), odd |-> FALSE,
     tree |-> NilTree, root |-> NilNode, err |-> NoErr]

buildVars == <<obj, builds, hung, opts, tree, root, err, opts0, tree0, root0,
               err0>>

NoCall == [op |-> "none"]

NoArgs == [height |-> 0, y |-> 0, x |-> 0]

\* The Leaf Sets a caller hands to BuildTree: a nil pointer, or up to
\* MaxLeaves leaves.
LeafSets ==
    {NilLeaves} \cup
    {LeavesPtr(s) : s \in UNION {[1..n -> LeafChoices] : n \in 0..MaxLeaves}}

Init ==
    /\ obj \in LeafSets
    /\ builds = 0
    /\ hung = FALSE
    /\ opts = NewOptions(DefaultHashFunc, FALSE)
    /\ tree = NilTree
    /\ root = NilNode
    /\ err = NoErr
    /\ opts0 = NewOptions(DefaultHashFunc, FALSE)
    /\ tree0 = NilTree
    /\ root0 = NilNode
    /\ err0 = NoErr
    /\ pons = <<>>
    /\ ponsArgs = NoArgs
    /\ call = NoCall
    /\ tree2 = TreePtr(<<>>)
    /\ root2 = ZeroNode
    /\ arrays = IF obj.nil THEN <<>> ELSE <<obj.elems>>
    /\ hdrs = IF obj.nil THEN <<>> ELSE <<[arr |-> 1, len |-> Len(obj.elems)]>>
    /\ leaves = IF obj.nil THEN 0 ELSE 1
    /\ clone = 0
    /\ calls = 0
    /\ race = [init |-> obj, first |-> 0, overlap |-> FALSE,
               proc |-> [p \in Procs |-> IdleProc]]

\* tree, root, err := leaves.BuildTree(WithHashFunc(hashFunc), WithSkipHash(skipHash))
BuildTreeCall ==
    /\ ~hung
    /\ builds < MaxBuilds
    /\ \E hashFunc \in HashFuncs, skipHash \in BOOLEAN :
         LET o == NewOptions(hashFunc, skipHash)
             r == BuildTree(obj, o)
         IN  /\ obj' = r.obj
             /\ builds' = builds + 1
             /\ hung' = r.diverges
             /\ opts' = o
             /\ tree' = r.tree
             /\ root' = r.root
             /\ err' = r.err
             /\ opts0' = opts
             /\ tree0' = tree
             /\ root0' = root
             /\ err0' = err
    /\ call' = [op |-> "BuildTree", before |-> obj]
    /\ UNCHANGED <<pons, ponsArgs, declVars, memVars, race>>

\* The first build on a Leaf Set.
BuildFirst == builds = 0 /\ BuildTreeCall

\* The levels and offsets a caller asks for: those of the table and one more
\* on each side.
Levels == 0..(Height(tree) + 1)

Offsets == 0..(Width(tree, 0).val + 1)

\* The same for a query on table t.
LevelsOf(t) == 0..(Height(t) + 1)

OffsetsOf(t) == 0..(Width(t, 0).val + 1)

\* The tables a caller queries: the one BuildTree returned, the one it
\* declared, and a nil pointer (var invalidTree *Tree).
Receivers == {tree, tree2, NilTree}

\* rootHash, err := t.GetRootHash()
GetRootHashCall ==
    /\ ~hung
    /\ builds > 0
    /\ \E t \in Receivers :
         call' = [op |-> "GetRootHash", tree |-> t, res |-> GetRootHash(t)]
    /\ UNCHANGED <<buildVars, pons, ponsArgs, declVars, memVars, race>>

\* hash, err := t.GetHash(y, x)
GetHashCall ==
    /\ ~hung
    /\ builds > 0
    /\ \E t \in Receivers : \E y \in LevelsOf(t), x \in OffsetsOf(t) :
         call' = [op |-> "GetHash", tree |-> t, y |-> y, x |-> x,
                  res |-> GetHash(t, y, x)]
    /\ UNCHANGED <<buildVars, pons, ponsArgs, declVars, memVars, race>>

\* t.Height()
HeightCall ==
    /\ ~hung
    /\ builds > 0
    /\ \E t \in Receivers :
         call' = [op |-> "Height", tree |-> t, res |-> Height(t)]
    /\ UNCHANGED <<buildVars, pons, ponsArgs, declVars, memVars, race>>

\* t.Width(y)
WidthCall ==
    /\ ~hung
    /\ builds > 0
    /\ \E t \in Receivers : \E y \in LevelsOf(t) :
         call' = [op |-> "Width", tree |-> t, y |-> y, res |-> Width(t, y)]
    /\ UNCHANGED <<buildVars, pons, ponsArgs, declVars, memVars, race>>

\* t.Y()
YCall ==
    /\ ~hung
    /\ builds > 0
    /\ \E t \in Receivers :
         call' = [op |-> "Y", tree |-> t, res |-> Y(t)]
    /\ UNCHANGED <<buildVars, pons, ponsArgs, declVars, memVars, race>>

\* t.X(y)
XCall ==
    /\ ~hung
    /\ builds > 0
    /\ \E t \in Receivers : \E y \in LevelsOf(t) :
         call' = [op |-> "X", tree |-> t, y |-> y, res |-> X(t, y)]
    /\ UNCHANGED <<buildVars, pons, ponsArgs, declVars, memVars, race>>

\* bytes, err := t.Marshal()
MarshalTreeCall ==
    /\ ~hung
    /\ builds > 0
    /\ \E t \in Receivers :
         LET r == TreeMarshal(t)
         IN  call' = [op |-> "Tree.Marshal", tree |-> t, bytes |-> r.bytes,
                      err |-> r.err]
    /\ UNCHANGED <<buildVars, pons, ponsArgs, declVars, memVars, race>>

\* bytes, err := node.Marshal(), on the Root BuildTree returned or on the one
\* the caller declared.
MarshalRootCall ==
    /\ ~hung
    /\ builds > 0
    /\ \E node \in {NodeView(root, obj.elems), root2} :
         call' = [op |-> "Root.Marshal", node |-> node,
                  bytes |-> RootMarshal(node), err |-> NoErr]
    /\ UNCHANGED <<buildVars, pons, ponsArgs, declVars, memVars, race>>

\* The latest call returned bytes.
HoldsBytes == call.op \in {"Tree.Marshal", "Root.Marshal"} /\ call.err = NoErr

\* err := json.Unmarshal(bytes, &tree2), on the bytes just marshalled
UnmarshalTreeCall ==
    /\ ~hung
    /\ HoldsBytes
    /\ LET r == UnmarshalTree(call.bytes, tree2)
       IN  /\ tree2' = r.tree
           /\ call' = [op |-> "UnmarshalTree", data |-> call.bytes,
                        err |-> r.err]
    /\ UNCHANGED <<buildVars, pons, ponsArgs, root2, memVars, race>>

\* err := json.Unmarshal(bytes, &root2), on the bytes just marshalled
UnmarshalRootCall ==
    /\ ~hung
    /\ HoldsBytes
    /\ LET r == UnmarshalRoot(call.bytes, root2)
       IN  /\ root2' = r.node
           /\ call' = [op |-> "UnmarshalRoot", data |-> call.bytes,
                        err |-> r.err]
    /\ UNCHANGED <<buildVars, pons, ponsArgs, tree2, memVars, race>>

\* The JSON texts a caller holds besides those Marshal returned: [[]],
\* [["AQ=="],[]] and [["AQ==","Ag=="],["Aw=="]].
CallerTexts ==
    {<<Tok("["), Tok("["), Tok("]"), Tok("]")>>,
     <<Tok("["), Tok("["), StrTok(B64Encode(<<1>>)), Tok("]"), Tok(","),
       Tok("["), Tok("]"), Tok("]")>>,
     <<Tok("["), Tok("["), StrTok(B64Encode(<<1>>)), Tok(","),
       StrTok(B64Encode(<<2>>)), Tok("]"), Tok(","),
       Tok("["), StrTok(B64Encode(<<3>>)), Tok("]"), Tok("]")>>}

\* err := json.Unmarshal(text, &tree2), on a text of the caller's
UnmarshalTextCall ==
    /\ ~hung
    /\ \E text \in CallerTexts :
         LET r == UnmarshalTree(text, tree2)
         IN  /\ tree2' = r.tree
             /\ call' = [op |-> "UnmarshalTree", data |-> text, err |-> r.err]
    /\ UNCHANGED <<buildVars, pons, ponsArgs, root2, memVars, race>>

\* The positions a caller derives a path from: those of the table, and one
\* past the end of each level and of the table.
Positions ==
    {p \in (0..Height(tree)) \X Offsets : p[2] <= Width(tree, p[1]).val}

\* merklePath := make(PoNs, 0); merklePath.GetPath(tree.Height(), y, x)
GetPathCall ==
    /\ ~hung
    /\ builds > 0
    /\ \E p \in Positions :
         LET y      == p[1]
             x      == p[2]
             height == Height(tree)
         IN  /\ ponsArgs' = [height |-> height, y |-> y, x |-> x]
             /\ IF GetPathDiverges(height, y)
                THEN hung' = TRUE /\ pons' = <<>>
                ELSE hung' = FALSE /\ pons' = GetPath(<<>>, height, y, x)
    /\ call' = [op |-> "GetPath"]
    /\ UNCHANGED <<obj, builds, opts, tree, root, err, opts0, tree0, root0, err0,
                   declVars, memVars, race>>

\* A digest altered in its first byte.
Altered(digest) ==
    IF digest = <<>> THEN <<0>> ELSE <<(Head(digest) + 1) % 256>> \o Tail(digest)

\* The digests a caller claims for the position its path starts from: the
\* entries of that level, and each of them altered.
ClaimedDigests ==
    LET level == {tree.levels[ponsArgs.y + 1][x] :
                     x \in 1..Width(tree, ponsArgs.y).val}
    IN  level \cup {Altered(d) : d \in level}

\* ok, err := tree.Prove(&merklePath, unverifiedHash, h)
ProveCall ==
    /\ ~hung
    /\ builds > 0
    /\ ponsArgs # NoArgs
    /\ \E unverifiedHash \in ClaimedDigests, h \in HashFuncs :
         call' = [op |-> "Prove", digest |-> unverifiedHash, h |-> h,
                  res |-> Prove(tree, pons, unverifiedHash, h)]
    /\ UNCHANGED <<buildVars, pons, ponsArgs, declVars, memVars, race>>

\* The Contents of the items the latest BuildTree call was given as leaf
\* payloads, each hashing itself with hc.
ContentsOf(leafSet, hc) ==
    [i \in 1..Length(leafSet) |-> ContentOf(leafSet.elems[i].Payload, hc)]

\* t, err := NewTree(list, WithHashFunc(h)), on the items the Leaf Set was
\* built from
NewTreeCall ==
    /\ ~hung
    /\ call.op = "BuildTree"
    /\ \E h \in HashFuncs, hc \in HashFuncs :
         LET cs == ContentsOf(call.before, hc)
             r  == NewTree(cs, h)
         IN  /\ hung' = r.diverges
             /\ call' = [op |-> "NewTree", list |-> cs, h |-> h, hc |-> hc,
                          mt |-> r.tree, err |-> r.err]
    /\ UNCHANGED <<obj, builds, opts, tree, root, err, opts0, tree0, root0, err0,
                   pons, ponsArgs, declVars, memVars, race>>

\* The Leaf Sets of SpecLeaves: the caller's and the clone.
Targets == {"leaves", "clone"}

Ptr(target) == IF target = "leaves" THEN leaves ELSE clone

Other(target) == IF target = "leaves" THEN "clone" ELSE "leaves"

Mem == [arrays |-> arrays, hdrs |-> hdrs]

\* What a call on a Leaf Set leaves behind: the memory, the caller's Leaf Set
\* as it now reads, and the record of the call with both Leaf Sets as they
\* were before it.
LeafSetCall(op, target, mem) ==
    /\ arrays' = mem.arrays
    /\ hdrs' = mem.hdrs
    /\ obj' = View(mem, leaves)
    /\ calls' = calls + 1
    /\ call' = [op |-> op, on |-> target, before |-> View(Mem, Ptr(target)),
                other |-> View(Mem, Ptr(Other(target)))]
    /\ UNCHANGED <<builds, hung, opts, tree, root, err, opts0, tree0, root0,
                   err0, pons, ponsArgs, declVars, leaves, clone, race>>

\* target.Add(leaf)
AddCall ==
    /\ calls < MaxCalls
    /\ \E target \in Targets, leaf \in LeafChoices \cup {NilNode} :
         LeafSetCall("Add", target, LeavesAdd(Mem, Ptr(target), leaf))

\* err := target.Hash(h)
HashCall ==
    /\ calls < MaxCalls
    /\ \E target \in Targets, h \in HashFuncs :
         LeafSetCall("Hash", target, HashInPlace(Mem, Ptr(target), h).mem)

\* target.Sort()
SortCall ==
    /\ calls < MaxCalls
    /\ \E target \in Targets :
         LeafSetCall("Sort", target, SortInPlace(Mem, Ptr(target)))

\* target.BuildTree(WithHashFunc(hashFunc), WithSkipHash(skipHash))
BuildTreeOnCall ==
    /\ calls < MaxCalls
    /\ \E target \in Targets, hashFunc \in HashFuncs, skipHash \in BOOLEAN :
         LeafSetCall("BuildTree", target,
                     BuildInPlace(Mem, Ptr(target),
                                  NewOptions(hashFunc, skipHash)).mem)

\* clone := leaves.Clone()
CloneCall ==
    /\ calls < MaxCalls
    /\ LET r == LeavesClone(Mem, leaves)
       IN  /\ arrays' = r.mem.arrays
           /\ hdrs' = r.mem.hdrs
           /\ clone' = r.ptr
           /\ obj' = View(r.mem, leaves)
    /\ calls' = calls + 1
    /\ call' = [op |-> "Clone", on |-> "leaves", before |-> View(Mem, leaves),
                other |-> View(Mem, clone)]
    /\ UNCHANGED <<builds, hung, opts, tree, root, err, opts0, tree0, root0,
                   err0, pons, ponsArgs, declVars, leaves, race>>

\* Caller q is inside BuildTree.
Running(q) == race.proc[q].pc \notin {"call", "done"}

\* One step of caller p inside BuildTree: what it leaves of the Leaf Set and
\* of itself.  overlap records that the other caller was inside BuildTree.
RaceStep(p, leafSet, proc) ==
    /\ obj' = leafSet
    /\ race' = [race EXCEPT !.proc[p] = proc,
                            !.first = IF @ = 0 THEN p ELSE @,
                            !.overlap = @ \/ \E q \in Procs \ {p} : Running(q)]
    /\ UNCHANGED <<builds, hung, opts, tree, root, err, opts0, tree0, root0,
                   err0, pons, ponsArgs, call, declVars, memVars>>

\* The guard, the options and the hashing of the leaves.
HashLeaves ==
    \E p \in Procs, hashFunc \in HashFuncs, skipHash \in BOOLEAN :
        LET me     == race.proc[p]
            o      == NewOptions(hashFunc, skipHash)
            hashed == IF ~o.SkipHash THEN LeavesHash(obj.elems, o.HashFunc)
                      ELSE [elems |-> obj.elems, err |-> NoErr]
        IN  /\ me.pc = "call"
            /\ IF EmptyInput(obj)
               THEN RaceStep(p, obj, [me EXCEPT !.pc = "done", !.opts = o,
                                                !.err = EmptyResult(obj).err])
               ELSE IF hashed.err # NoErr
               THEN RaceStep(p, LeavesPtr(hashed.elems),
                             [me EXCEPT !.pc = "done", !.opts = o,
                                        !.err = hashed.err])
               ELSE RaceStep(p, LeavesPtr(hashed.elems),
                             [me EXCEPT !.pc = "check", !.opts = o])

\* The test of the padding with every length found even.
OddLengthNever(leafSet) == FALSE

\* The test of the padding: obj.Length()%2 == 1.
OddLength(leafSet) == Length(leafSet) % 2 = 1

\* The test of the padding.
PadCheck ==
    \E p \in Procs :
        LET me == race.proc[p]
        IN  /\ me.pc = "check"
            /\ RaceStep(p, obj, [me EXCEPT !.odd = OddLength(obj),
                                           !.pc = IF OddLength(obj) THEN "pad"
                                                  ELSE "init"])

\* The padding: the clone of the last leaf is appended.
PadAppend ==
    \E p \in Procs :
        LET me == race.proc[p]
        IN  /\ me.pc = "pad"
            /\ RaceStep(p, LeavesPtr(AppendClone(obj.elems)),
                        [me EXCEPT !.pc = "init"])

\* initTree: the digests of the leaves are copied into level 0.
CopyLevel0 ==
    \E p \in Procs :
        LET me == race.proc[p]
            it == InitTree(obj.elems)
        IN  /\ me.pc = "init"
            /\ RaceStep(p, obj,
                        IF it.err # NoErr
                        THEN [me EXCEPT !.pc = "done", !.err = it.err]
                        ELSE [me EXCEPT !.pc = "branch", !.tree = it.tree])

\* buildBranch on the leaves as they are now, and the return of BuildTree.
BuildLevels ==
    \E p \in Procs :
        LET me == race.proc[p]
            b  == BuildBranch(obj.elems, LeafPtrs(obj.elems), me.tree.levels,
                              me.opts.HashFunc)
        IN  /\ me.pc = "branch"
            /\ RaceStep(p, obj,
                        IF b.diverges THEN [me EXCEPT !.pc = "hung",
                                                      !.tree = NilTree]
                        ELSE IF b.err # NoErr
                        THEN [me EXCEPT !.pc = "done", !.tree = NilTree,
                                        !.err = b.err]
                        ELSE [me EXCEPT !.pc = "done",
                                        !.tree = TreePtr(b.levels),
                                        !.root = b.root])

\* Builds on one Leaf Set.
NextBuild == BuildTreeCall

SpecBuild == Init /\ [][NextBuild]_vars

\* One build, then queries on its table.
NextAddr ==
    \/ BuildFirst
    \/ GetRootHashCall
    \/ GetHashCall
    \/ HeightCall
    \/ WidthCall
    \/ YCall
    \/ XCall
    \/ MarshalTreeCall

SpecAddr == Init /\ [][NextAddr]_vars

\* One build, then paths and proofs on its table.
NextProve == BuildFirst \/ GetPathCall \/ ProveCall

SpecProve == Init /\ [][NextProve]_vars

\* One build, then its table and root marshalled and unmarshalled.
NextMarshal ==
    \/ BuildFirst
    \/ MarshalTreeCall
    \/ MarshalRootCall
    \/ UnmarshalTreeCall
    \/ UnmarshalRootCall

SpecMarshal == Init /\ [][NextMarshal]_vars

\* Calls on a Leaf Set of up to MaxCloned leaves and on its clone.
InitLeaves == Init /\ Length(obj) <= MaxCloned

NextLeaves == AddCall \/ HashCall \/ SortCall \/ BuildTreeOnCall \/ CloneCall

SpecLeaves == InitLeaves /\ [][NextLeaves]_vars

\* Two BuildTree calls on one Leaf Set, their steps interleaved.
NextRace == HashLeaves \/ PadCheck \/ PadAppend \/ CopyLevel0 \/ BuildLevels

InitRace == Init /\ Length(obj) <= MaxRaced

SpecRace == InitRace /\ [][NextRace]_vars

\* One build on a Leaf Set of up to MaxQueried leaves, tables unmarshalled
\* from the caller's texts, and queries on all of them.
InitText == Init /\ Length(obj) <= MaxQueried

NextText ==
    \/ BuildFirst
    \/ UnmarshalTextCall
    \/ GetHashCall
    \/ GetRootHashCall
    \/ WidthCall
    \/ XCall

SpecText == InitText /\ [][NextText]_vars

\* One build on a Leaf Set, then the pointer-linked tree over the same items.
NextContent == BuildFirst \/ NewTreeCall

SpecContent == Init /\ [][NextContent]_vars

----------------------------------------------------------------------------
(* Properties of BuildTree, under SpecBuild *)

\* The latest BuildTree call returned a table and a root.
Built == builds > 0 /\ ~hung /\ err = NoErr

\* The Leaf Set the latest BuildTree call was given.
Before == call.before

\* The digests of the leaves, in leaf order.
Digests(elems) == [i \in 1..Len(elems) |-> elems[i].Hash]

\* Level widths of the latest table.
Widths == [i \in 1..Height(tree) |-> Len(tree.levels[i])]

\* C1: after every successful BuildTree, whatever the hash function, the Level
\* Table and the Root agree: GetRootHash succeeds and returns root.Hash.
C1_RootAgrees ==
    (call.op = "BuildTree" /\ Built) => GetRootHash(tree) = Found(root.Hash)

\* C1 witness: a table with an odd level in the middle, built with the
\* colliding hash function.
C1_Witness ==
    /\ call.op = "BuildTree" /\ Built
    /\ Widths = <<6, 3, 2, 1>>
    /\ opts.HashFunc = "Checksum"
    /\ GetRootHash(tree) = Found(root.Hash)

\* C4: BuildTree on a nil or empty Leaf Set returns an error, a nil table and
\* a nil root, and leaves the Leaf Set as it was.
C4_EmptyInputFails ==
    (call.op = "BuildTree" /\ EmptyInput(Before)) =>
        /\ err # NoErr
        /\ tree = NilTree
        /\ root = NilNode
        /\ obj = Before

\* C4 witness: a build was called on an empty, non-nil Leaf Set.
C4_Witness ==
    /\ call.op = "BuildTree"
    /\ Before = LeavesPtr(<<>>)
    /\ err = "not found leaf"

\* C5: a successful BuildTree on n leaves leaves n + 1 leaves when n is odd,
\* the appended one with the digest of leaf n - 1 and its payload, and n
\* leaves when n is even.
C5_OddPadded ==
    (call.op = "BuildTree" /\ Built) =>
        LET n == Len(Before.elems)
        IN  IF n % 2 = 1
            THEN /\ Len(obj.elems) = n + 1
                 /\ obj.elems[n + 1].Hash = obj.elems[n].Hash
                 /\ obj.elems[n + 1].Payload = obj.elems[n].Payload
                 /\ obj.elems[n].Payload = Before.elems[n].Payload
            ELSE Len(obj.elems) = n

\* C5 witness: three leaves went in and four came out.
C5_Witness ==
    /\ call.op = "BuildTree" /\ Built
    /\ Len(Before.elems) = 3
    /\ Len(obj.elems) = 4

\* C6: in every table BuildTree returns each level is half the width of the
\* level below, rounded up, and the top level has one entry.
C6_WidthsHalve ==
    (call.op = "BuildTree" /\ Built) =>
        /\ \A i \in 1..(Height(tree) - 1) : Widths[i + 1] = (Widths[i] + 1) \div 2
        /\ Widths[Height(tree)] = 1

\* C6 witness: widths 6, 3, 2, 1.
C6_Witness == call.op = "BuildTree" /\ Built /\ Widths = <<6, 3, 2, 1>>

\* The reference table: each level from the one below by pairing offsets 2k
\* and 2k + 1, a trailing unpaired offset with itself.
RefLevel(h, prev) ==
    [k \in 1..((Len(prev) + 1) \div 2) |->
        Hash(h, prev[2 * k - 1] \o
                (IF 2 * k <= Len(prev) THEN prev[2 * k] ELSE prev[2 * k - 1])).digest]

RECURSIVE RefTable(_, _)
RefTable(h, levels) ==
    IF Len(levels[Len(levels)]) <= 1 THEN levels
    ELSE RefTable(h, Append(levels, RefLevel(h, levels[Len(levels)])))

\* C7: the table BuildTree returns is the reference table over the padded
\* leaf digests in leaf order.
C7_TableIsReference ==
    (call.op = "BuildTree" /\ Built) =>
        tree.levels = RefTable(opts.HashFunc, <<Digests(obj.elems)>>)

\* C7 witness: a table with a self-paired node at level 1.
C7_Witness ==
    /\ call.op = "BuildTree" /\ Built
    /\ Widths = <<6, 3, 2, 1>>
    /\ tree.levels[3][2] =
           Hash(opts.HashFunc, tree.levels[2][3] \o tree.levels[2][3]).digest

\* C8: a second BuildTree with the same options on the Leaf Set a successful
\* build left behind returns an equal table and an equal root, and appends no
\* leaf.
C8_Idempotent ==
    (call.op = "BuildTree" /\ builds >= 2 /\ err0 = NoErr /\ opts = opts0) =>
        /\ Built
        /\ tree = tree0
        /\ NodeView(root, obj.elems) = NodeView(root0, obj.elems)
        /\ Len(obj.elems) = Len(Before.elems)

\* C8 witness: two successful builds with the same options, the first of
\* which padded the Leaf Set.
C8_Witness ==
    /\ call.op = "BuildTree" /\ builds >= 2 /\ err0 = NoErr /\ opts = opts0
    /\ Built
    /\ Widths = <<6, 3, 2, 1>>
    /\ obj.elems[5] = obj.elems[6]
    /\ tree = tree0

\* C9, as claimed: a build of one leaf returns a table of height 1 whose root
\* digest is the leaf's digest.
C9_SingleLeafHeightOne ==
    (call.op = "BuildTree" /\ err = NoErr /\ Len(Before.elems) = 1) =>
        /\ Built
        /\ Height(tree) = 1
        /\ GetRootHash(tree) = Found(obj.elems[1].Hash)

\* C9, amended: a build of one leaf pads the Leaf Set to two leaves and
\* returns a table of height 2 whose root digest is the hash of the leaf's
\* digest concatenated with itself.
C9_SingleLeafHeightTwo ==
    (call.op = "BuildTree" /\ err = NoErr /\ Len(Before.elems) = 1) =>
        /\ Built
        /\ Len(obj.elems) = 2
        /\ Height(tree) = 2
        /\ Widths = <<2, 1>>
        /\ GetRootHash(tree) =
               Found(Hash(opts.HashFunc,
                          obj.elems[1].Hash \o obj.elems[1].Hash).digest)
        /\ root.Hash = GetRootHash(tree).hash

\* C9 witness: a successful build of one leaf.
C9_Witness ==
    /\ call.op = "BuildTree" /\ Built /\ Len(Before.elems) = 1
    /\ Height(tree) = 2

\* C14: with skipHash false BuildTree sets every leaf's digest to
\* hash(payload), overwriting a digest the leaf carried, before level 0 is
\* built; with skipHash true no leaf digest is changed and level 0 holds the
\* caller's digests.
C14_SkipHash ==
    (call.op = "BuildTree" /\ ~EmptyInput(Before)) =>
        \A i \in 1..Len(Before.elems) :
            LET given  == Before.elems[i].Hash
                hashed == Hash(opts.HashFunc, Before.elems[i].Payload).digest
            IN  /\ opts.SkipHash => obj.elems[i].Hash = given
                /\ (opts.SkipHash /\ Built) => tree.levels[1][i] = given
                /\ (~opts.SkipHash /\ Built) =>
                       /\ obj.elems[i].Hash = hashed
                       /\ tree.levels[1][i] = hashed

\* C14 witness: a build with skipHash false overwrote the digest <<3>> the
\* first leaf carried, and level 0 holds the new digest.
C14_Witness ==
    /\ call.op = "BuildTree" /\ Built
    /\ ~opts.SkipHash
    /\ Before.elems[1].Hash = <<3>>
    /\ obj.elems[1].Hash = Hash(opts.HashFunc, Before.elems[1].Payload).digest
    /\ obj.elems[1].Hash # <<3>>
    /\ tree.levels[1][1] = obj.elems[1].Hash

\* The digests a list of leaf digests is padded to.
PaddedDigests(digests) ==
    IF Len(digests) % 2 = 1 THEN Append(digests, digests[Len(digests)])
    ELSE digests

\* The hash function reports an error while combining a pair of this level or
\* of a level above it.
RECURSIVE CombineFails(_, _)
CombineFails(h, level) ==
    IF Len(level) <= 1 THEN FALSE
    ELSE \/ \E k \in 1..((Len(level) + 1) \div 2) :
              Hash(h, level[2 * k - 1] \o
                      (IF 2 * k <= Len(level) THEN level[2 * k]
                       ELSE level[2 * k - 1])).err # NoErr
         \/ CombineFails(h, RefLevel(h, level))

\* The hash function reports an error while hashing a leaf payload of the
\* latest build.
LeafHashFails ==
    /\ ~opts.SkipHash
    /\ \E i \in 1..Len(Before.elems) :
          Hash(opts.HashFunc, Before.elems[i].Payload).err # NoErr

\* The hash function reports an error at some point of the latest build.
HashFails ==
    \/ LeafHashFails
    \/ CombineFails(opts.HashFunc,
                    PaddedDigests([i \in 1..Len(Before.elems) |->
                        IF opts.SkipHash THEN Before.elems[i].Hash
                        ELSE Hash(opts.HashFunc, Before.elems[i].Payload).digest]))

\* C15: if the hash function reports an error at any point of a build, while
\* hashing a leaf payload or while combining a pair at any level, BuildTree
\* returns that error, and a nil Level Table and a nil Root.
C15_HashErrorAborts ==
    (call.op = "BuildTree" /\ ~EmptyInput(Before) /\ HashFails) =>
        /\ ~hung
        /\ err = Hash("Faulty", <<2>>).err
        /\ tree = NilTree
        /\ root = NilNode

\* C15 witness: the leaves were hashed and padded, level 1 was built, and the
\* hash function failed on a pair of level 1.
C15_Witness ==
    /\ call.op = "BuildTree" /\ ~EmptyInput(Before)
    /\ ~opts.SkipHash /\ ~LeafHashFails
    /\ Len(Before.elems) = 3 /\ Len(obj.elems) = 4
    /\ ~\E k \in 1..2 :
           Hash(opts.HashFunc,
                obj.elems[2 * k - 1].Hash \o obj.elems[2 * k].Hash).err # NoErr
    /\ HashFails
    /\ err # NoErr /\ tree = NilTree /\ root = NilNode

\* C19, as claimed: the only change BuildTree makes to the Leaf Set is
\* appending one duplicate of the last leaf when the count is odd; the leaves
\* present before the call keep their order, payloads and digests.
C19_OnlyPadding ==
    (call.op = "BuildTree" /\ ~EmptyInput(Before)) =>
        LET n == Len(Before.elems)
        IN  /\ SubSeq(obj.elems, 1, n) = Before.elems
            /\ Len(obj.elems) \in {n, n + 1}
            /\ Len(obj.elems) = n + 1 =>
                   n % 2 = 1 /\ obj.elems[n + 1] = Before.elems[n]

\* C19, amended: BuildTree changes the Leaf Set in two ways only: with
\* skipHash false it overwrites leaf digests with hash(payload), and it
\* appends one duplicate of the last leaf when the count is odd; the leaves
\* present before the call keep their order, heights and payloads, and with
\* skipHash true their digests too.
C19_OnlyDigestsAndPadding ==
    /\ (call.op = "BuildTree" /\ EmptyInput(Before)) => obj = Before
    /\ (call.op = "BuildTree" /\ ~EmptyInput(Before)) =>
        LET n == Len(Before.elems)
        IN  /\ Len(obj.elems) \in {n, n + 1}
            /\ Len(obj.elems) = n + 1 =>
                   n % 2 = 1 /\ obj.elems[n + 1] = obj.elems[n]
            /\ Built => Len(obj.elems) = n + (n % 2)
            /\ \A i \in 1..n :
                  /\ [obj.elems[i] EXCEPT !.Hash = <<>>] =
                         [Before.elems[i] EXCEPT !.Hash = <<>>]
                  /\ \/ obj.elems[i].Hash = Before.elems[i].Hash
                     \/ /\ ~opts.SkipHash
                        /\ obj.elems[i].Hash =
                               Hash(opts.HashFunc, Before.elems[i].Payload).digest

\* C19 witness: a build of three leaves with skipHash false overwrote the
\* digest of the first leaf and appended a duplicate of the third.
C19_Witness ==
    /\ call.op = "BuildTree" /\ Built
    /\ ~opts.SkipHash
    /\ Len(Before.elems) = 3 /\ Len(obj.elems) = 4
    /\ obj.elems[4] = obj.elems[3]
    /\ Before.elems[1].Hash = <<3>>
    /\ obj.elems[1].Hash # <<3>>
    /\ obj.elems[1].Payload = Before.elems[1].Payload

\* C22: leaves are immutable once placed in a built tree: after BuildTree has
\* returned a Root, a later BuildTree on the same Leaf Set, with whatever hash
\* function, changes no digest, payload or position of a node reachable from
\* that Root, and the Root stays consistent with level 0 of its own table.
C22_RootImmutable ==
    (call.op = "BuildTree" /\ builds >= 2 /\ err0 = NoErr) =>
        /\ NodeView(root0, obj.elems) = NodeView(root0, Before.elems)
        /\ Digests(SubSeq(obj.elems, 1, Len(tree0.levels[1]))) = tree0.levels[1]

----------------------------------------------------------------------------
(* Properties of GetPath and Prove, under SpecProve *)

\* The latest call was Prove, on the path GetPath derived for leaf offset x
\* of the table with the table's own height.
ProvedLeaf(x) ==
    /\ call.op = "Prove"
    /\ Built
    /\ ponsArgs = [height |-> Height(tree), y |-> 0, x |-> x]
    /\ x < Width(tree, 0).val

\* Every lookup Prove makes along the path succeeds.
LookupsSucceed ==
    \A k \in 1..Len(pons) : GetHash(tree, pons[k][1], pons[k][2]).err = NoErr

\* The hash functions taken as collision-free.
CollisionFree == {"Keccak256"}

\* C2: for every leaf offset x of a built table, Prove on the path
\* GetPath(Height, 0, x) with the digest tree[0][x] and the build's hash
\* function returns (true, nil).
C2_EveryLeafProves ==
    \A x \in Offsets :
        (/\ ProvedLeaf(x)
         /\ call.digest = tree.levels[1][x + 1]
         /\ call.h = opts.HashFunc) => call.res = ProveResult(TRUE, NoErr)

\* C3: on the path of leaf offset x, all of whose lookups succeed, and with
\* the build's collision-free hash function, Prove returns (false, nil) for
\* every claimed digest other than tree[0][x].
C3_AlteredDigestFails ==
    \A x \in Offsets :
        (/\ ProvedLeaf(x)
         /\ LookupsSucceed
         /\ opts.HashFunc \in CollisionFree
         /\ call.h = opts.HashFunc
         /\ call.digest # tree.levels[1][x + 1]) =>
            call.res = ProveResult(FALSE, NoErr)

\* C3 witness: an altered digest refused on a path of three steps.
C3_Witness ==
    /\ ProvedLeaf(1)
    /\ LookupsSucceed
    /\ Len(pons) = 3
    /\ opts.HashFunc \in CollisionFree
    /\ call.h = opts.HashFunc
    /\ call.digest = Altered(tree.levels[1][2])
    /\ call.res = ProveResult(FALSE, NoErr)

RECURSIVE Pow2(_)
Pow2(k) == IF k = 0 THEN 1 ELSE 2 * Pow2(k - 1)

\* C13: for height >= 1 and y <= height - 1, GetPath(height, y, x) returns
\* and appends exactly height - 1 - y positions, ordered leaf to root: the
\* k-th one is (y + k, s_k), where o_k = floor(x / 2^k) and s_k = o_k + 1 if
\* o_k is even, else o_k - 1; none is at the root level, and the parent of
\* each sibling position is the parent of the node itself.
C13_PathShape ==
    LET height == ponsArgs.height
        y      == ponsArgs.y
        x      == ponsArgs.x
    IN  (ponsArgs # NoArgs /\ height >= 1 /\ y <= height - 1) =>
            /\ ~hung
            /\ Len(pons) = height - 1 - y
            /\ \A k \in 0..(Len(pons) - 1) :
                  LET o == x \div Pow2(k)
                      s == IF o % 2 = 0 THEN o + 1 ELSE o - 1
                  IN  /\ pons[k + 1] = <<y + k, s>>
                      /\ pons[k + 1][1] < height - 1
                      /\ GetParent(pons[k + 1]) = GetParent(<<y + k, o>>)

\* C13 witness: the path of leaf 5 of a table of four levels, whose second
\* position (1, 3) is the sibling of the odd-one-out node (1, 2).
C13_Witness ==
    /\ ponsArgs = [height |-> 4, y |-> 0, x |-> 5]
    /\ pons = <<(<<0, 4>>), (<<1, 3>>), (<<2, 0>>)>>

\* The path of leaf offset x passes through a self-paired node: at some level
\* k between the leaves and the root the node above the leaf, at offset
\* floor(x / 2^k), is the trailing unpaired node of a level of odd width.
ThroughSelfPaired(x) ==
    \E k \in 1..(Height(tree) - 2) :
        LET o == x \div Pow2(k)
        IN  o % 2 = 0 /\ o = Width(tree, k).val - 1

\* C21: when the path GetPath derives for a leaf passes through a self-paired
\* node at an intermediate level, the sibling position the path names there is
\* not in the Level Table, and Prove returns an error, neither true nor
\* false: the error of the lookup, "invalid x", unless the hash function
\* handed to Prove failed on a step before it.
C21_SelfPairedPathFails ==
    \A x \in Offsets :
        (ProvedLeaf(x) /\ ThroughSelfPaired(x)) =>
            /\ \E k \in 1..Len(pons) :
                  /\ pons[k][1] >= 1
                  /\ pons[k][2] = Width(tree, pons[k][1]).val
                  /\ GetHash(tree, pons[k][1], pons[k][2]) = Failed("invalid x")
            /\ ~call.res.panic
            /\ ~call.res.ok
            /\ call.res.err # NoErr
            /\ call.h # "Faulty" => call.res.err = "invalid x"

\* C21 witness: leaf 5 of a table of widths 6, 3, 2, 1, whose path names the
\* position (1, 3) that level 1 does not have; Prove with the leaf's own
\* digest and the build's hash function returned the error of the lookup.
C21_Witness ==
    /\ ProvedLeaf(5)
    /\ Widths = <<6, 3, 2, 1>>
    /\ pons[2] = <<1, 3>>
    /\ call.digest = tree.levels[1][6]
    /\ call.h = opts.HashFunc
    /\ call.res = ProveResult(FALSE, "invalid x")

\* The latest call was Prove, on the path GetPath derived with the table's
\* own height for position (y, x) of the table.
ProvedPosition(y, x) ==
    /\ call.op = "Prove"
    /\ Built
    /\ ponsArgs = [height |-> Height(tree), y |-> y, x |-> x]
    /\ y <= Y(tree)
    /\ x < Width(tree, y).val

\* C26: Prove does not bind the claimed digest to level 0.  For every
\* position (y, x) of a built table with y >= 1 whose path names existing
\* siblings only, Prove on the path GetPath(Height, y, x) with the digest
\* tree[y][x] and the build's hash function returns (true, nil), as it does
\* for a leaf; on the empty path, whatever the hash function, Prove returns
\* true exactly for the root digest.
C26_InternalDigestProves ==
    \A y \in 1..Height(tree), x \in Offsets :
        /\ (/\ ProvedPosition(y, x)
            /\ LookupsSucceed
            /\ call.h = opts.HashFunc
            /\ call.digest = tree.levels[y + 1][x + 1]) =>
               call.res = ProveResult(TRUE, NoErr)
        /\ (ProvedPosition(y, x) /\ pons = <<>>) =>
               /\ y = Y(tree)
               /\ call.res =
                      ProveResult(call.digest = tree.levels[Y(tree) + 1][1], NoErr)

\* C26 witness: the digest of the internal node (1, 1) of a table of four
\* levels was accepted on the path (1, 0), (2, 1).
C26_Witness ==
    /\ ProvedPosition(1, 1)
    /\ Widths = <<6, 3, 2, 1>>
    /\ pons = <<(<<1, 0>>), (<<2, 1>>)>>
    /\ LookupsSucceed
    /\ call.h = opts.HashFunc
    /\ call.digest = tree.levels[2][2]
    /\ call.res = ProveResult(TRUE, NoErr)

----------------------------------------------------------------------------
(* Properties of the addressing queries, under SpecAddr *)

\* C10: on a built table GetHash(y, x) returns an error exactly when
\* y > Y() or x > Width(y) - 1, returns tree[y][x] otherwise, and never reads
\* a level outside the table.
C10_GetHashRange ==
    (call.op = "GetHash" /\ call.tree = tree /\ Built) =>
        LET y == call.y
            x == call.x
            r == call.res
        IN  /\ ~r.panic
            /\ (r.err # NoErr) <=>
                   (y > Y(tree) \/ x > Len(tree.levels[y + 1]) - 1)
            /\ (r.err = NoErr) => r.hash = tree.levels[y + 1][x + 1]

\* C10 witness: a level above the table was asked for, with an offset that
\* level 0 has, and refused.
C10_Witness ==
    /\ call.op = "GetHash" /\ call.tree = tree /\ Built
    /\ call.y = Height(tree)
    /\ call.x = 1
    /\ call.res = Failed("invalid y")

\* The receiver of the latest query was an absent (nil) or an empty table.
OnEmptyTable == call.tree.nil \/ call.tree.levels = <<>>

\* C11: Width(y) returns the number of entries of level y when y < Height(),
\* and returns 0, rather than failing, when the table is nil, is empty, or y
\* is out of range (y >= Height()).
C11_WidthTotal ==
    (call.op = "Width") =>
        /\ ~call.res.panic
        /\ call.res.val = IF call.y < Height(call.tree)
                          THEN Len(call.tree.levels[call.y + 1])
                          ELSE 0

\* C12: every query on an absent (nil) or empty table returns and signals
\* emptiness: Height(), Y() and X(0) return 0, GetRootHash() and GetHash(y, x)
\* return an error for all y and x, and Marshal() on a nil table returns an
\* error; on a built table Y() is Height() - 1.
C12_EmptyTableQueries ==
    /\ (call.op \in {"Height", "Y"} /\ OnEmptyTable) => call.res = 0
    /\ (call.op = "X" /\ OnEmptyTable /\ call.y = 0) =>
           call.res = [val |-> 0, panic |-> FALSE]
    /\ (call.op \in {"GetRootHash", "GetHash"} /\ OnEmptyTable) =>
           call.res.err # NoErr /\ ~call.res.panic
    /\ (call.op = "Tree.Marshal" /\ call.tree.nil) => call.err # NoErr
    /\ (call.op = "Y" /\ call.tree = tree /\ Built) =>
           call.res = Height(tree) - 1

\* C12 witness: Y() was asked of the declared, empty table after a build had
\* returned a table of four levels, and returned 0.
C12_Witness ==
    /\ call.op = "Y"
    /\ call.tree = TreePtr(<<>>)
    /\ Built /\ Height(tree) = 4
    /\ call.res = 0

----------------------------------------------------------------------------
(* Properties of Marshal and Unmarshal, under SpecMarshal *)

\* The Node graph behind the Root of the latest build.
RootView == NodeView(root, obj.elems)

\* C16: for the Root and the Level Table BuildTree returned, trees with
\* self-paired nodes included, unmarshal(marshal(x)) is structurally equal to
\* x and marshal(unmarshal(marshal(x))) equals marshal(x).
C16_RoundTrip ==
    /\ (call.op = "UnmarshalTree" /\ Built
            /\ call.data = TreeMarshal(tree).bytes) =>
           /\ call.err = NoErr
           /\ tree2 = tree
           /\ TreeMarshal(tree2).bytes = call.data
    /\ (call.op = "UnmarshalRoot" /\ Built
            /\ call.data = RootMarshal(RootView)) =>
           /\ call.err = NoErr
           /\ root2 = RootView
           /\ RootMarshal(root2) = call.data

\* C16 witness: the Root of a table of widths 6, 3, 2, 1 was marshalled and
\* unmarshalled; its right child is the self-paired node, which comes back
\* with two equal children.
C16_Witness ==
    /\ call.op = "UnmarshalRoot" /\ Built
    /\ Widths = <<6, 3, 2, 1>>
    /\ call.data = RootMarshal(RootView)
    /\ root2 = RootView
    /\ root.Right.Left = root.Right.Right
    /\ root2.Right.Left = root2.Right.Right
    /\ root2.Right.Left # NilNode

----------------------------------------------------------------------------
(* Properties of the calls on Leaf Sets, under SpecLeaves *)

\* The Leaf Set behind a target as it reads now.
Now(target) == View(Mem, Ptr(target))

\* C17: Clone returns a copy with storage of its own: the clone is
\* element-wise equal to the original at the time of cloning, and afterwards
\* no Add, Hash, Sort or BuildTree on the clone changes the original's length,
\* order, digests or payloads, and none on the original changes the clone;
\* Clone of a nil Leaf Set is nil.
C17_CloneIndependent ==
    /\ (call.op = "Clone") =>
           /\ Now("leaves") = call.before
           /\ IF call.before.nil THEN clone = 0
              ELSE clone # 0 /\ Now("clone") = call.before
    /\ (call.op \in {"Add", "Hash", "Sort", "BuildTree"}) =>
           Now(Other(call.on)) = call.other

\* C17 witness: BuildTree on the clone of three leaves rehashed the clone and
\* padded it to four, and the original still reads as before.
C17_Witness ==
    /\ call.op = "BuildTree" /\ call.on = "clone" /\ clone # 0
    /\ Len(call.before.elems) = 3
    /\ Len(Now("clone").elems) = 4
    /\ Now("clone").elems[1].Hash # call.before.elems[1].Hash
    /\ call.other.elems = call.before.elems
    /\ Now("leaves") = call.other

\* a <= b in byte-wise lexicographic order.
LexLeq(a, b) ==
    \/ Len(a) <= Len(b) /\ a = SubSeq(b, 1, Len(a))
    \/ \E k \in 1..Len(a) :
          /\ k <= Len(b)
          /\ SubSeq(a, 1, k - 1) = SubSeq(b, 1, k - 1)
          /\ a[k] < b[k]

\* How often leaf occurs in elems.
Count(elems, leaf) == Cardinality({i \in 1..Len(elems) : elems[i] = leaf})

\* C18: after Sort the leaves are in ascending byte-wise lexicographic order
\* of digest, digest[i] <= digest[i + 1] for all adjacent i, and they are a
\* permutation of the leaves before the call: the length is the same and
\* each leaf keeps its payload with its digest.
C18_SortAscending ==
    (call.op = "Sort") =>
        LET before == call.before.elems
            after  == Now(call.on).elems
        IN  /\ Len(after) = Len(before)
            /\ \A i \in 1..(Len(after) - 1) :
                  LexLeq(after[i].Hash, after[i + 1].Hash)
            /\ \A i \in 1..Len(before) :
                  Count(after, before[i]) = Count(before, before[i])

\* C18 witness: a Sort that moved the last of three or more leaves, hashed
\* by the call before it, to the front.
C18_Witness ==
    /\ call.op = "Sort"
    /\ Len(call.before.elems) >= 3
    /\ Now(call.on).elems[1] = call.before.elems[Len(call.before.elems)]
    /\ Now(call.on).elems[1].Hash # Now(call.on).elems[2].Hash
    /\ Len(Now(call.on).elems[1].Hash) = 2

----------------------------------------------------------------------------
(* Properties of two builds at once, under SpecRace *)

\* Both callers have returned.
RaceDone == \A p \in Procs : race.proc[p].pc = "done"

\* What the two calls left: the Leaf Set, and what each returned.
Outcome ==
    [obj |-> obj,
     res |-> [p \in Procs |-> [tree |-> race.proc[p].tree,
                                root |-> race.proc[p].root,
                                err  |-> race.proc[p].err]]]

\* What they leave when caller a's BuildTree runs first and caller b's after
\* it has returned.
SeqOutcome(a, b) ==
    LET r1 == BuildTree(race.init, race.proc[a].opts)
        r2 == BuildTree(r1.obj, race.proc[b].opts)
    IN  [obj |-> r2.obj,
         res |-> [p \in Procs |->
                     IF p = a
                     THEN [tree |-> r1.tree, root |-> r1.root, err |-> r1.err]
                     ELSE [tree |-> r2.tree, root |-> r2.root, err |-> r2.err]]]

\* C20: two BuildTree calls on one Leaf Set are unsafe when their steps
\* (hash the leaves, pad if odd, copy level 0, build the levels) interleave:
\* calls that do not interleave leave what one of the two sequential orders
\* leaves, and an outcome that neither order leaves comes from interleaved
\* calls only.  C20_Witness is such an outcome.
C20_OnlyInterleavingBreaks ==
    RaceDone =>
        /\ ~race.overlap =>
               \E a \in Procs : \E b \in Procs \ {a} :
                   race.first = a /\ Outcome = SeqOutcome(a, b)
        /\ (Outcome # SeqOutcome(1, 2) /\ Outcome # SeqOutcome(2, 1)) =>
               race.overlap

\* C20 witness: both callers found the count odd and both padded, which
\* leaves n + 2 leaves, an outcome of neither sequential order.
C20_Witness ==
    /\ RaceDone
    /\ Len(obj.elems) = Len(race.init.elems) + 2
    /\ \A p \in Procs : race.proc[p].odd /\ race.proc[p].err = NoErr
    /\ Outcome # SeqOutcome(1, 2)
    /\ Outcome # SeqOutcome(2, 1)

----------------------------------------------------------------------------
(* Properties of the Node graph BuildTree returns, under SpecBuild *)

Max(a, b) == IF a >= b THEN a ELSE b

\* Every node with children below node, node included, is one level above the
\* higher of its children.
RECURSIVE HeightsStepByOne(_)
HeightsStepByOne(node) ==
    \/ node.Left = NilNode
    \/ /\ node.Height = Max(node.Left.Height, node.Right.Height) + 1
       /\ HeightsStepByOne(node.Left)
       /\ HeightsStepByOne(node.Right)

\* C23: for every leaf sequence BuildTree accepts, every internal Node of the
\* returned graph has Height = max(Left.Height, Right.Height) + 1.
C23_HeightIsMaxPlusOne ==
    (call.op = "BuildTree" /\ Built) => HeightsStepByOne(RootView)

\* The node behind ptr is the node of position (y, k) of the latest table: at
\* level 0 ptr is the address of leaf k of the Leaf Set, a node without
\* children; above, the node carries the digest tree[y][k], its Left is the
\* node of (y - 1, 2k) and its Right the node of (y - 1, 2k + 1), or its Left
\* once more when level y - 1 ends at offset 2k.
RECURSIVE Mirrors(_, _, _)
Mirrors(ptr, y, k) ==
    IF y = 0
    THEN /\ ptr = [ref |-> k]
         /\ k < Len(obj.elems)
         /\ obj.elems[k + 1].Left = NilNode
         /\ obj.elems[k + 1].Right = NilNode
    ELSE /\ ptr # NilNode
         /\ "ref" \notin DOMAIN ptr
         /\ ptr.Hash = tree.levels[y + 1][k + 1]
         /\ Mirrors(ptr.Left, y - 1, 2 * k)
         /\ IF 2 * k + 1 < Width(tree, y - 1).val
            THEN Mirrors(ptr.Right, y - 1, 2 * k + 1)
            ELSE ptr.Right = ptr.Left

\* C24: the Node graph BuildTree returns mirrors the Level Table: walking
\* from the Root, the node reached at level y and offset k has Hash =
\* tree[y][k], its Left child is the node of (y - 1, 2k) and its Right child
\* the node of (y - 1, 2k + 1), or the same node as Left when 2k is the
\* trailing unpaired offset; the nodes at level 0 have no children and are
\* the caller's leaves in order, and level 0 of the table holds their digests.
C24_GraphMirrorsTable ==
    (call.op = "BuildTree" /\ Built) =>
        /\ Mirrors(root, Height(tree) - 1, 0)
        /\ Width(tree, 0).val = Len(obj.elems)
        /\ \A k \in 1..Len(obj.elems) : tree.levels[1][k] = obj.elems[k].Hash

\* C24 witness: the graph behind a table of widths 6, 3, 2, 1: the right
\* child of the root holds tree[2][1], its two children are the one node of
\* (1, 2), and the children of that node are the leaves 4 and 5.
C24_Witness ==
    /\ call.op = "BuildTree" /\ Built
    /\ Widths = <<6, 3, 2, 1>>
    /\ root.Right.Hash = tree.levels[3][2]
    /\ root.Right.Left = root.Right.Right
    /\ root.Right.Left.Hash = tree.levels[2][3]
    /\ root.Right.Left.Left = [ref |-> 4]
    /\ root.Right.Left.Right = [ref |-> 5]
    /\ Mirrors(root, 3, 0)

\* The widths buildBranch was entered with in the latest build, whose leaves
\* were hashed without error.
BranchWidths == EnteredWidths(obj.elems, LeafPtrs(obj.elems), opts.HashFunc)

\* C25: BuildTree returns for every non-empty leaf sequence: after padding,
\* every buildBranch call receives a level of width >= 2, the width strictly
\* decreases from call to call, and a build without hash error ends at the
\* call of width exactly 2, which emits the one-entry top level; buildBranch
\* is never entered with width 0 or 1.
C25_BuildTerminates ==
    (call.op = "BuildTree" /\ ~EmptyInput(Before)) =>
        /\ ~hung
        /\ ~LeafHashFails =>
               LET ws == BranchWidths
               IN  /\ ws[1] = Len(Before.elems) + (Len(Before.elems) % 2)
                   /\ \A i \in 1..Len(ws) : ws[i] >= 2
                   /\ \A i \in 1..(Len(ws) - 1) : ws[i + 1] < ws[i]
                   /\ (err = NoErr) =>
                          /\ ws[Len(ws)] = 2
                          /\ Height(tree) = Len(ws) + 1
                          /\ Len(tree.levels[Height(tree)]) = 1

\* C25 witness: a build of five leaves entered buildBranch with widths 6, 3
\* and 2 and returned a table of four levels.
C25_Witness ==
    /\ call.op = "BuildTree" /\ Built
    /\ Len(Before.elems) = 5
    /\ BranchWidths = <<6, 3, 2>>
    /\ Widths = <<6, 3, 2, 1>>

----------------------------------------------------------------------------
(* Properties of queries on tables from JSON text, under SpecText *)

\* C27: GetHash never reads outside the table: for every Tree value, an
\* unmarshalled table with an empty level included, and every (y, x), it
\* returns the entry tree[y][x] or an error, and the bound X(y) =
\* Width(y) - 1 it compares x with does not wrap around.
C27_GetHashInsideTable ==
    (call.op = "GetHash") =>
        LET t == call.tree
            y == call.y
            x == call.x
            r == call.res
        IN  /\ ~r.panic
            /\ (r.err = NoErr) =>
                   /\ y < Height(t)
                   /\ x < Len(t.levels[y + 1])
                   /\ r.hash = t.levels[y + 1][x + 1]
            /\ (~OnEmptyTable /\ y <= Y(t)) =>
                   X(t, y).val < Width(t, y).val

----------------------------------------------------------------------------
(* Properties of the two variants, under SpecContent *)

\* C28: the pointer-linked variant and the array-addressed variant compute
\* the same tree: for every non-empty list of items, when each Content's
\* CalculateHash is hash(payload) and both use the same hash function,
\* NewTree fails exactly when BuildTree fails, with the same error, and
\* otherwise NewTree(...).MerkleRoot() is the root digest of BuildTree's
\* table and Root, odd counts and odd intermediate levels included.
C28_VariantsAgree ==
    (/\ call.op = "NewTree"
     /\ call.list # <<>>
     /\ ~opts.SkipHash
     /\ call.h = opts.HashFunc
     /\ call.hc = opts.HashFunc) =>
        /\ ~hung
        /\ call.err = err
        /\ (err = NoErr) =>
               /\ ~call.mt.nil
               /\ GetRootHash(tree) = Found(MerkleRoot(call.mt))
               /\ root.Hash = MerkleRoot(call.mt)
               /\ Len(call.mt.Leaves) = Len(obj.elems)

\* C28 witness: five items, which both variants pad to six and pair into
\* levels of 3, 2 and 1 nodes, the last of the three with itself; the two
\* roots are equal.
C28_Witness ==
    /\ call.op = "NewTree"
    /\ Len(call.list) = 5
    /\ ~opts.SkipHash
    /\ call.h = opts.HashFunc /\ call.hc = opts.HashFunc
    /\ opts.HashFunc = "Keccak256"
    /\ Built /\ Widths = <<6, 3, 2, 1>>
    /\ [k \in 1..4 |-> Len(call.mt.nodes[k])] = <<6, 3, 2, 1>>
    /\ call.mt.nodes[1][6].dup
    /\ call.mt.nodes[3][2].Left = <<2, 2>>
    /\ call.mt.nodes[3][2].Right = <<2, 2>>
    /\ call.mt.nodes[2][3].Parent = <<3, 1>>
    /\ MerkleRoot(call.mt) = root.Hash

============================================================================
